---- MODULE Spec2Model ----
(***************************************************************************)
(* Model of ocr2table.py: the batch pipeline main() runs,                  *)
(*   get_all_files -> collect_data -> get_ocr_result -> _load_file.        *)
(*                                                                         *)
(* A file name is a sequence of tokens, each either the dot "." or a       *)
(* non-empty run of other characters: "x.y.png" is <<"x",".","y",".",      *)
(* "png">>.  A path is a record [dir, name], dir being the sequence of     *)
(* directory names below the root.  Bytes are sequences; b'' is << >>.     *)
(* An optional int (pdf_page) is << >> for None and <<n>> for n.           *)
(***************************************************************************)
EXTENDS Integers, Sequences, FiniteSets, TLC

\* ---------------------------------------------------------------- bounds
MaxFiles == 2
MaxDepth == 2

\* ------------------------------------------------------ program constants
DOT == "."
SUPPORT_SUFFIX ==
    { <<DOT, "png">>, <<DOT, "jpg">>, <<DOT, "jpeg">>, <<"bmp">>, <<DOT, "pdf">> }
MAX_SIZE == 7 * 1024 * 1024
OUTPUT == <<"output">>
XLSX == <<DOT, "xlsx">>
PDF == <<DOT, "pdf">>
None == << >>

\* ------------------------------------------------- the modelled file system
DirChain == <<"d", "e", "f", "g">>
Dirs == { SubSeq(DirChain, 1, k) : k \in 0..MaxDepth }
Names ==
    { <<"x", DOT, "png">>, <<"x", DOT, "jpg">>, <<"y", DOT, "jpeg">>,
      <<"x", DOT, "pdf">>, <<"x", DOT, "bmp">>, <<"x", DOT, "txt">>,
      <<"x", DOT, "PDF">>, <<"x", DOT, "y", DOT, "png">> }
AllFiles == { [dir |-> d, name |-> n] : d \in Dirs, n \in Names }
Trees ==
    UNION { { { f[i] : i \in 1..k } : f \in [1..k -> AllFiles] } : k \in 0..MaxFiles }
\* raw byte lengths of a file: empty, tiny, the largest accepted, the
\* smallest rejected
RawSizes == { 0, 1, 5505024, 5505025 }
PageArgs == { None, <<0>>, <<1>>, <<2>> }

\* ------------------------------------------------------------ pathlib.Path
\* index of the last "." token of a name, 0 when there is none (str.rfind)
RFindDot(name) ==
    LET S == { i \in 1..Len(name) : name[i] = DOT }
    IN  IF S = {} THEN 0 ELSE CHOOSE i \in S : \A j \in S : j <= i

\* PurePath.suffix: the part from the last dot on, unless that dot is the
\* first or the last character of the name
Suffix(name) ==
    LET i == RFindDot(name)
    IN  IF 1 < i /\ i < Len(name) THEN SubSeq(name, i, Len(name)) ELSE << >>

\* PurePath.stem
Stem(name) ==
    LET i == RFindDot(name)
    IN  IF 1 < i /\ i < Len(name) THEN SubSeq(name, 1, i - 1) ELSE name

\* PurePath.with_suffix: replaces the existing suffix, appends when none
WithSuffix(name, suffix) ==
    IF Suffix(name) = << >>
    THEN name \o suffix
    ELSE SubSeq(name, 1, Len(name) - Len(Suffix(name))) \o suffix

\* excel = (OUTPUT / name).with_suffix('.xlsx'), name = file.stem
Excel(file) == [dir |-> OUTPUT, name |-> WithSuffix(Stem(file.name), XLSX)]

\* ------------------------------------------------------------------ base64
\* len(base64.b64encode(content)) for len(content) = n
B64Len(n) == 4 * ((n + 2) \div 3)
\* base64 text is kept apart from the bytes it stands for
B64Encode(bytes) == [b64 |-> bytes]
B64Decode(text) == text.b64

\* ------------------------------------------------------------ the provider
\* the artifact the provider recognises in a file; distinct files give
\* distinct artifacts
ProviderData(file) == <<file.dir, file.name>>
Response(file) == [Data |-> B64Encode(ProviderData(file)), RequestId |-> file]

\* ----------------------------------------------------------- get_ocr_result
\* the bound compared with >= instead of >
TooLargeInclusive(size) == size >= MAX_SIZE

TooLarge(size) == size > MAX_SIZE

\* what _load_file returns, as the length of the returned text
LoadedLen(n) == IF TooLarge(B64Len(n)) THEN 0 ELSE B64Len(n)

\* the comparison inverted
IsPdfFileInverted(file) == Suffix(file.name) # PDF

IsPdfFile(file) == Suffix(file.name) = PDF

Truthy(pdf_page) == pdf_page # None /\ pdf_page[1] # 0

BuildParams(content, file, pdf_page) ==
    ("ImageBase64" :> content)
    @@ (IF IsPdfFile(file) THEN ("IsPdf" :> TRUE) ELSE << >>)
    @@ (IF Truthy(pdf_page) THEN ("PdfPageNumber" :> pdf_page[1]) ELSE << >>)

\* collect_data asking for the first page explicitly
BatchPageFirst == <<1>>

\* the pdf_page collect_data passes to get_ocr_result: none
BatchPage == None

VARIABLES
    pc,         \* "walk" (get_all_files), "collect" (collect_data), "done"
    tree,       \* the files under IMAGE_DIR
    unvisited,  \* files os.walk has not yielded yet
    files,      \* result of get_all_files / files of collect_data
    idx,        \* position of the for loop of collect_data
    trace,      \* per file, the states it has gone through
    rawlen,     \* per file, the number of bytes _load_file read (-1: unread)
    result,     \* the local `result` of collect_data
    requests,   \* requests handed to client.RecognizeTableOCR, in order
    errors,     \* logger.error calls: <<file index, kind>>
    out,        \* the output directory: path -> bytes
    writes      \* the writes done, in order

vars == <<pc, tree, unvisited, files, idx, trace, rawlen, result, requests,
          errors, out, writes>>

Init ==
    /\ pc = "walk"
    /\ tree \in Trees
    /\ unvisited = tree
    /\ files = << >>
    /\ idx = 1
    /\ trace = << >>
    /\ rawlen = << >>
    /\ result = << >>
    /\ requests = << >>
    /\ errors = {}
    /\ out = << >>
    /\ writes = << >>

\* ------------------------------------------------------------ get_all_files
\* os.walk is top-down: the files of a directory come before those of its
\* subdirectories; the order inside a directory is the file system's
WalkFile ==
    /\ pc = "walk"
    /\ \E f \in unvisited :
        /\ \A g \in unvisited : Len(f.dir) <= Len(g.dir)
        /\ unvisited' = unvisited \ {f}
        /\ files' = IF Suffix(f.name) \notin SUPPORT_SUFFIX
                    THEN files
                    ELSE Append(files, f)
    /\ UNCHANGED <<pc, tree, idx, trace, rawlen, result, requests, errors,
                   out, writes>>

\* get_all_files returns; main calls collect_data, which makes OUTPUT
StartCollect ==
    /\ pc = "walk"
    /\ unvisited = {}
    /\ pc' = "collect"
    /\ idx' = 1
    /\ trace' = [i \in 1..Len(files) |-> <<"Discovered">>]
    /\ rawlen' = [i \in 1..Len(files) |-> -1]
    /\ UNCHANGED <<tree, unvisited, files, result, requests, errors, out,
                   writes>>

Last(s) == s[Len(s)]

Move(i, state) == [trace EXCEPT ![i] = Append(@, state)]

\* for file in files: name = file.stem; get_ocr_result(client, file) is
\* entered and _load_file opens the file
BeginFile ==
    /\ pc = "collect"
    /\ idx <= Len(files)
    /\ Last(trace[idx]) = "Discovered"
    /\ trace' = Move(idx, "Encoding")
    /\ UNCHANGED <<pc, tree, unvisited, files, idx, rawlen, result, requests,
                   errors, out, writes>>

\* _load_file reads and encodes; get_ocr_result returns b'' on an empty
\* text, else builds the request and calls the provider
LoadFile ==
    /\ pc = "collect"
    /\ idx <= Len(files)
    /\ Last(trace[idx]) = "Encoding"
    /\ \E n \in RawSizes :
        LET content == LoadedLen(n) IN
        /\ rawlen' = [rawlen EXCEPT ![idx] = n]
        /\ errors' = IF TooLarge(B64Len(n))
                     THEN errors \cup {<<idx, "size">>}
                     ELSE errors
        /\ IF content = 0
           THEN /\ result' = << >>
                /\ trace' = Move(idx, "EncodeFailed")
                /\ UNCHANGED requests
           ELSE /\ requests' = Append(requests,
                       [index |-> idx, file |-> files[idx],
                        params |-> BuildParams(content, files[idx], BatchPage)])
                /\ trace' = Move(idx, "Submitted")
                /\ UNCHANGED result
    /\ UNCHANGED <<pc, tree, unvisited, files, idx, out, writes>>

\* a second attempt after the provider raised
RemoteReturnRetry ==
    /\ pc = "collect"
    /\ idx <= Len(files)
    /\ Last(trace[idx]) = "Submitted"
    /\ \E ok \in BOOLEAN :
        IF ok
        THEN /\ result' = B64Decode(Response(files[idx]).Data)
             /\ trace' = Move(idx, "ResultReceived")
             /\ UNCHANGED <<errors, requests>>
        ELSE /\ errors' = errors \cup {<<idx, "sdk">>}
             /\ IF <<idx, "sdk">> \in errors
                THEN /\ result' = << >>
                     /\ trace' = Move(idx, "RemoteFailed")
                     /\ UNCHANGED requests
                ELSE /\ requests' = Append(requests, requests[Len(requests)])
                     /\ UNCHANGED <<result, trace>>
    /\ UNCHANGED <<pc, tree, unvisited, files, idx, rawlen, out, writes>>

\* client.RecognizeTableOCR returns a response or raises
\* TencentCloudSDKException
RemoteReturn ==
    /\ pc = "collect"
    /\ idx <= Len(files)
    /\ Last(trace[idx]) = "Submitted"
    /\ \E ok \in BOOLEAN :
        IF ok
        THEN /\ result' = B64Decode(Response(files[idx]).Data)
             /\ trace' = Move(idx, "ResultReceived")
             /\ UNCHANGED errors
        ELSE /\ result' = << >>
             /\ trace' = Move(idx, "RemoteFailed")
             /\ errors' = errors \cup {<<idx, "sdk">>}
    /\ UNCHANGED <<pc, tree, unvisited, files, idx, rawlen, requests, out,
                   writes>>

Store(dir, path, bytes) ==
    [p \in DOMAIN dir \cup {path} |-> IF p = path THEN bytes ELSE dir[p]]

\* nothing written for an empty result
WriteFileSkipEmpty ==
    /\ pc = "collect"
    /\ idx <= Len(files)
    /\ Last(trace[idx]) \in {"EncodeFailed", "RemoteFailed", "ResultReceived"}
    /\ IF result = << >>
       THEN UNCHANGED <<out, writes, trace>>
       ELSE /\ out' = Store(out, Excel(files[idx]), result)
            /\ writes' = Append(writes, [index |-> idx,
                                         path |-> Excel(files[idx]),
                                         bytes |-> result])
            /\ trace' = Move(idx, "Written")
    /\ idx' = idx + 1
    /\ UNCHANGED <<pc, tree, unvisited, files, rawlen, result, requests,
                   errors>>

\* open(excel, 'wb').write(result); next iteration
WriteFile ==
    /\ pc = "collect"
    /\ idx <= Len(files)
    /\ Last(trace[idx]) \in {"EncodeFailed", "RemoteFailed", "ResultReceived"}
    /\ out' = Store(out, Excel(files[idx]), result)
    /\ writes' = Append(writes, [index |-> idx, path |-> Excel(files[idx]),
                                 bytes |-> result])
    /\ trace' = Move(idx, "Written")
    /\ idx' = idx + 1
    /\ UNCHANGED <<pc, tree, unvisited, files, rawlen, result, requests,
                   errors>>

\* the for loop is exhausted; collect_data and main return
Finish ==
    /\ pc = "collect"
    /\ idx > Len(files)
    /\ pc' = "done"
    /\ UNCHANGED <<tree, unvisited, files, idx, trace, rawlen, result,
                   requests, errors, out, writes>>

Next ==
    \/ WalkFile
    \/ StartCollect
    \/ BeginFile
    \/ LoadFile
    \/ RemoteReturn
    \/ WriteFile
    \/ Finish

Spec == Init /\ [][Next]_vars

\* the same program over the trees that keep every file in IMAGE_DIR itself
FlatInit == Init /\ \A f \in tree : f.dir = << >>

\* the program is one sequential thread: an enabled step is taken
FairSpec == FlatInit /\ [][Next]_vars /\ WF_vars(Next)


\* ------------------------------------------------------------------ helpers
Range(s) == { s[i] : i \in DOMAIN s }
Indexes == 1..Len(files)
Started(i) == pc # "walk" /\ i \in DOMAIN trace
Went(i, state) == Started(i) /\ state \in Range(trace[i])
Loaded(i) == Started(i) /\ rawlen[i] >= 0
Calls(i) == Cardinality({ k \in DOMAIN requests : requests[k].index = i })
WritesOf(i) == { k \in DOMAIN writes : writes[k].index = i }
HasKey(params, key) == key \in DOMAIN params

\* ------------------------------------------------------------------- C1
\* C1: every file of the list is processed and the batch completes; at the
\* end the output of a file whose remote call succeeded holds exactly the
\* bytes the provider returned for it, and the output of any other file is
\* empty, whatever happened to the files before or after it.
C1_PerFileIsolation ==
    pc = "done" =>
        \A i \in Indexes :
            /\ Went(i, "Written")
            /\ Excel(files[i]) \in DOMAIN out
            /\ out[Excel(files[i])] =
                   IF Went(i, "ResultReceived")
                   THEN ProviderData(files[i])
                   ELSE << >>

\* ------------------------------------------------------------------- C4
ClaimedSuffixes ==
    { <<DOT, "png">>, <<DOT, "jpg">>, <<DOT, "jpeg">>, <<DOT, "bmp">>,
      <<DOT, "pdf">> }

\* C4: get_all_files returns exactly the files of the tree whose extension
\* is one of .png .jpg .jpeg .bmp .pdf, at any depth, and nothing else.
C4_FilterCorrect ==
    pc # "walk" =>
        Range(files) = { f \in tree : Suffix(f.name) \in ClaimedSuffixes }

\* ------------------------------------------------------------------- C5
\* C5: two distinct files of the list never get the same output path, and
\* the output directory ends with one file per processed input.
C5_OutputPathUnique ==
    /\ \A i, j \in Indexes : i # j => Excel(files[i]) # Excel(files[j])
    /\ pc = "done" => Cardinality(DOMAIN out) = Len(files)

\* ------------------------------------------------------------------- C6
\* C6: a file is written to the output directory under its base name with
\* only the final extension removed and ".xlsx" appended.
C6_NamingDeterminism ==
    \A k \in DOMAIN writes :
        LET name == files[writes[k].index].name
            i == RFindDot(name)
        IN  /\ writes[k].path.dir = OUTPUT
            /\ writes[k].path.name = SubSeq(name, 1, i - 1) \o XLSX

\* ------------------------------------------------------------------- C9
RECURSIVE Replay(_, _, _)
\* the output directory after writing the files in the order perm[k..]
Replay(perm, k, dir) ==
    IF k > Len(files)
    THEN dir
    ELSE Replay(perm, k + 1,
                Store(dir, Excel(files[perm[k]]), writes[perm[k]].bytes))

\* C9: with the same files and the same per-file results, every processing
\* order leaves the same output directory.
C9_OrderInsensitive ==
    pc = "done" =>
        \A perm \in Permutations(Indexes) : Replay(perm, 1, << >>) = out

\* ------------------------------------------------------------------- C2
Paths ==
    { <<"Discovered", "Encoding", "EncodeFailed", "Written">>,
      <<"Discovered", "Encoding", "Submitted", "RemoteFailed", "Written">>,
      <<"Discovered", "Encoding", "Submitted", "ResultReceived", "Written">> }
IsPrefix(s, t) == Len(s) <= Len(t) /\ SubSeq(t, 1, Len(s)) = s

StateMachineOK ==
    pc # "walk" =>
        \A i \in Indexes :
            /\ \E p \in Paths : IsPrefix(trace[i], p)
            /\ Cardinality(WritesOf(i)) = IF Went(i, "Written") THEN 1 ELSE 0
            /\ pc = "done" => trace[i] \in Paths
            /\ \A k \in WritesOf(i) :
                 (Went(i, "EncodeFailed") \/ Went(i, "RemoteFailed"))
                     => writes[k].bytes = << >>

\* C2: every file goes Discovered, Encoding, then EncodeFailed or Submitted,
\* then (only after Submitted) RemoteFailed or ResultReceived, then Written;
\* it is written exactly once, after its encode/remote step, with no bytes
\* on EncodeFailed and RemoteFailed; the batch ends and leaves no file in an
\* earlier state.
C2_StateMachine == []StateMachineOK /\ <>(pc = "done")

C2_Witness ==
    /\ pc = "done"
    /\ \E i, j \in Indexes :
        /\ Went(i, "EncodeFailed") /\ Went(i, "Written")
        /\ Went(j, "RemoteFailed") /\ Went(j, "Written")

\* ------------------------------------------------------------------- C3
\* C3: no request carries a payload longer than MAX_SIZE; a file whose
\* encoded length is exactly MAX_SIZE is submitted; a longer one is
\* rejected with an error logged, no remote call and an empty result.
C3_SizeBoundary ==
    /\ \A k \in DOMAIN requests : requests[k].params["ImageBase64"] <= MAX_SIZE
    /\ \A i \in Indexes :
        Loaded(i) =>
            /\ B64Len(rawlen[i]) = MAX_SIZE =>
                 /\ Went(i, "Submitted")
                 /\ \E k \in DOMAIN requests :
                      /\ requests[k].index = i
                      /\ requests[k].params["ImageBase64"] = MAX_SIZE
            /\ B64Len(rawlen[i]) > MAX_SIZE =>
                 /\ Calls(i) = 0
                 /\ <<i, "size">> \in errors
                 /\ Went(i, "EncodeFailed")
                 /\ idx = i => result = << >>
                 /\ \A k \in WritesOf(i) : writes[k].bytes = << >>

C3_Witness ==
    /\ pc = "done"
    /\ \E i, j \in Indexes :
        /\ B64Len(rawlen[i]) = MAX_SIZE /\ Calls(i) = 1
        /\ B64Len(rawlen[j]) > MAX_SIZE /\ Calls(j) = 0

\* ------------------------------------------------------------------- C7
EndsWithPdf(name) ==
    Len(name) > 2 /\ name[Len(name)] = "pdf" /\ name[Len(name) - 1] = DOT

\* C7: a request for a file whose extension is ".pdf" carries IsPdf = true,
\* and a request for any other file carries no IsPdf at all.
C7_KindFlag ==
    \A k \in DOMAIN requests :
        LET r == requests[k] IN
        IF EndsWithPdf(r.file.name)
        THEN HasKey(r.params, "IsPdf") /\ r.params["IsPdf"] = TRUE
        ELSE ~HasKey(r.params, "IsPdf")

C7_Witness ==
    \E k, l \in DOMAIN requests :
        /\ EndsWithPdf(requests[k].file.name)
        /\ HasKey(requests[k].params, "IsPdf")
        /\ ~EndsWithPdf(requests[l].file.name)
        /\ ~HasKey(requests[l].params, "IsPdf")

\* ------------------------------------------------------------------- C8
\* C8 as claimed: at most one remote call per file, and exactly one for
\* every file whose encoded payload does not exceed MAX_SIZE.
C8_SingleAttemptClaimed ==
    \A i \in Indexes :
        Loaded(i) =>
            Calls(i) = IF B64Len(rawlen[i]) <= MAX_SIZE THEN 1 ELSE 0

\* C8: at most one remote call per file, never a second one after a
\* failure; exactly one for every file whose encoded payload is not empty
\* and does not exceed MAX_SIZE, none for an empty or an oversized one.
C8_SingleAttempt ==
    \A i \in Indexes :
        /\ Calls(i) <= 1
        /\ ~Loaded(i) => Calls(i) = 0
        /\ Loaded(i) =>
            Calls(i) = IF 0 < B64Len(rawlen[i]) /\ B64Len(rawlen[i]) <= MAX_SIZE
                       THEN 1 ELSE 0

C8_Witness ==
    /\ pc = "done"
    /\ \E i, j \in Indexes :
        /\ Went(i, "RemoteFailed") /\ Calls(i) = 1
        /\ rawlen[j] = 0 /\ Calls(j) = 0

\* ------------------------------------------------------------------ C10
\* C10: get_ocr_result puts PdfPageNumber in the request only for a page
\* that was passed and is not zero; collect_data passes none, so no request
\* of a batch carries one.
C10_NoPageInBatch ==
    /\ \A k \in DOMAIN requests : ~HasKey(requests[k].params, "PdfPageNumber")
    /\ \A i \in Indexes : \A page \in PageArgs :
        LET params == BuildParams(4, files[i], page) IN
        /\ HasKey(params, "PdfPageNumber") <=> (page # None /\ page # <<0>>)
        /\ HasKey(params, "PdfPageNumber") => params["PdfPageNumber"] = page[1]

C10_Witness ==
    \E k \in DOMAIN requests :
        /\ EndsWithPdf(requests[k].file.name)
        /\ HasKey(requests[k].params, "IsPdf")
        /\ ~HasKey(requests[k].params, "PdfPageNumber")
        /\ Went(requests[k].index, "Written")
====
